---- MODULE Spec2Model ----
(***************************************************************************)
(* Model of the NBA play-by-play pipeline:                                 *)
(*   nba_data_functions.py : pbp_processing, process_score_difference,     *)
(*     shot_detail_time_elapsed, pbp_game_processing,                      *)
(*     full_shot_detail_output                                             *)
(*   nba_shot_viz.py : clean_pbp_data, create_buckets, aggregate_data      *)
(* A data frame is a sequence of records (one per row, in row order).      *)
(* Text (ENDTIME, SHOT_ZONE_BASIC) is a sequence of one-character strings. *)
(***************************************************************************)
EXTENDS Integers, Sequences, FiniteSets, TLC

VARIABLES
  pbp,              \* raw play-by-play frame given to full_shot_detail_output
  shot_detail,      \* raw shot frame given to full_shot_detail_output
  pc,               \* position in the pipeline
  games,            \* games still to be visited by the loop of pbp_game_processing
  df1,              \* result of the last pbp_processing call
  pbp_list,         \* list of per-game timelines built by pbp_game_processing
  pbp_df,           \* concatenated timelines
  shot_detail_df,   \* shots with TIME_ELAPSED
  shot_detail_full, \* output of full_shot_detail_output
  error,            \* exception that ended the pipeline, or "none"
  csv,              \* frame read by ingest_data (processed shot file)
  df,               \* working frame of efg_scorediff_heatmap
  agg_df            \* output of aggregate_data

vars == <<pbp, shot_detail, pc, games, df1, pbp_list, pbp_df, shot_detail_df,
          shot_detail_full, error, csv, df, agg_df>>

pipeVars == <<pbp, shot_detail, games, df1, pbp_list, pbp_df, shot_detail_df,
              shot_detail_full, error>>
vizVars == <<csv, df, agg_df>>

-----------------------------------------------------------------------------
(* Bounds of the exploration *)
MaxEvents == 2
MaxShots == 2
MaxPeriod == 6
MaxScoreDiff == 101
MaxRows == 3

-----------------------------------------------------------------------------
(* Generic helpers *)

\* a missing value (NaN) of a non-negative numeric column
NaN == -1

Min(S) == CHOOSE a \in S : \A b \in S : a <= b
Max(S) == CHOOSE a \in S : \A b \in S : a >= b

SeqsUpTo(n, S) == UNION {[1..k -> S] : k \in 0..n}

RECURSIVE Concat(_)
Concat(ss) == IF ss = <<>> THEN <<>> ELSE Head(ss) \o Concat(Tail(ss))

\* Series.unique(): the distinct values in order of first appearance
RECURSIVE Unique(_)
Unique(s) ==
  IF s = <<>> THEN <<>>
  ELSE LET rest == Unique(SubSeq(s, 1, Len(s) - 1))
           last == s[Len(s)]
       IN IF \E i \in 1..Len(rest) : rest[i] = last THEN rest ELSE Append(rest, last)

\* Series.fillna(method = 'bfill') on the column ABS_SCORE_DIFF: a missing
\* value takes the next valid one.  The next valid row after a missing row is
\* the first row of the next run of valid rows.
bfill(frame) ==
  LET runStarts == {i \in 2..Len(frame) : /\ frame[i].ABS_SCORE_DIFF # NaN
                                          /\ frame[i - 1].ABS_SCORE_DIFF = NaN}
  IN [i \in 1..Len(frame) |->
        IF frame[i].ABS_SCORE_DIFF # NaN THEN frame[i]
        ELSE LET later == {j \in runStarts : j > i}
             IN IF later = {} THEN frame[i]
                ELSE [frame[i] EXCEPT !.ABS_SCORE_DIFF = frame[Min(later)].ABS_SCORE_DIFF]]

\* Series.fillna(method = 'ffill') on the column ABS_SCORE_DIFF: a missing
\* value takes the last valid one.  The last valid row before a missing row is
\* the last row of the previous run of valid rows.
ffill(frame) ==
  LET runEnds == {i \in 1..(Len(frame) - 1) : /\ frame[i].ABS_SCORE_DIFF # NaN
                                              /\ frame[i + 1].ABS_SCORE_DIFF = NaN}
  IN [i \in 1..Len(frame) |->
        IF frame[i].ABS_SCORE_DIFF # NaN THEN frame[i]
        ELSE LET earlier == {j \in runEnds : j < i}
             IN IF earlier = {} THEN frame[i]
                ELSE [frame[i] EXCEPT !.ABS_SCORE_DIFF = frame[Max(earlier)].ABS_SCORE_DIFF]]

-----------------------------------------------------------------------------
(* pbp_processing *)

Digits == {"0", "1", "2", "3", "4", "5", "6", "7", "8", "9"}
DigitVal(c) == CASE c = "0" -> 0 [] c = "1" -> 1 [] c = "2" -> 2 [] c = "3" -> 3
                 [] c = "4" -> 4 [] c = "5" -> 5 [] c = "6" -> 6 [] c = "7" -> 7
                 [] c = "8" -> 8 [] c = "9" -> 9

\* a field of the format '%M:%S': one or two digits, value at most 59
IsClockField(s) ==
  /\ Len(s) \in {1, 2}
  /\ \A i \in 1..Len(s) : s[i] \in Digits
  /\ Len(s) = 2 => DigitVal(s[1]) <= 5
ClockFieldVal(s) ==
  IF Len(s) = 1 THEN DigitVal(s[1]) ELSE 10 * DigitVal(s[1]) + DigitVal(s[2])

\* pd.to_datetime(ENDTIME, format = '%M:%S'): the whole text must match
ColonAt(s) == {i \in 1..Len(s) : s[i] = ":"}
ClockParses(s) ==
  /\ Cardinality(ColonAt(s)) = 1
  /\ LET c == CHOOSE i \in ColonAt(s) : TRUE
     IN /\ IsClockField(SubSeq(s, 1, c - 1))
        /\ IsClockField(SubSeq(s, c + 1, Len(s)))
ClockMinute(s) ==
  LET c == CHOOSE i \in ColonAt(s) : TRUE IN ClockFieldVal(SubSeq(s, 1, c - 1))
ClockSecond(s) ==
  LET c == CHOOSE i \in ColonAt(s) : TRUE IN ClockFieldVal(SubSeq(s, c + 1, Len(s)))

Abs(x) == IF x < 0 THEN -x ELSE x

\* pd.to_datetime raises on the first text that does not match the format
pbp_processing_raises(frame) == \E i \in 1..Len(frame) : ~ClockParses(frame[i].ENDTIME)

\* the key columns of the groupby
GroupKey(r) == <<r.GAMEID, r.PERIOD, r.MINUTES_REMAINING, r.SECONDS_REMAINING>>

\* sort_values(by = [GAMEID, PERIOD, MINUTES_REMAINING, SECONDS_REMAINING],
\*             ascending = [True, False, True, True])
SortValuesLess(a, b) ==
  \/ a.GAMEID < b.GAMEID
  \/ a.GAMEID = b.GAMEID /\ a.PERIOD > b.PERIOD
  \/ a.GAMEID = b.GAMEID /\ a.PERIOD = b.PERIOD
       /\ a.MINUTES_REMAINING < b.MINUTES_REMAINING
  \/ a.GAMEID = b.GAMEID /\ a.PERIOD = b.PERIOD
       /\ a.MINUTES_REMAINING = b.MINUTES_REMAINING
       /\ a.SECONDS_REMAINING < b.SECONDS_REMAINING

\* the rows of the set S listed in the order of sort_values
RECURSIVE SortValues(_)
SortValues(S) ==
  IF S = {} THEN <<>>
  ELSE LET m == CHOOSE a \in S : \A b \in S \ {a} : SortValuesLess(a, b)
       IN <<m>> \o SortValues(S \ {m})

\* variant: the group keeps its smallest value
GroupAggMin(S) == Min(S)

\* the aggregate kept for each group of the groupby (.max(), line 25)
GroupAgg(S) == Max(S)

pbp_processing(frame) ==
  LET timed == [i \in 1..Len(frame) |->
                  [GAMEID |-> frame[i].GAMEID, PERIOD |-> frame[i].PERIOD,
                   MINUTES_REMAINING |-> ClockMinute(frame[i].ENDTIME),
                   SECONDS_REMAINING |-> ClockSecond(frame[i].ENDTIME),
                   ABS_SCORE_DIFF |-> Abs(frame[i].STARTSCOREDIFFERENTIAL)]]
      keys == {GroupKey(timed[i]) : i \in 1..Len(timed)}
      grouped == {[GAMEID |-> k[1], PERIOD |-> k[2], MINUTES_REMAINING |-> k[3],
                   SECONDS_REMAINING |-> k[4],
                   ABS_SCORE_DIFF |->
                     GroupAgg({timed[i].ABS_SCORE_DIFF :
                                 i \in {j \in 1..Len(timed) : GroupKey(timed[j]) = k}})]
                  : k \in keys}
  IN SortValues(grouped)

-----------------------------------------------------------------------------
(* process_score_difference *)

\* lines 34-37
max_game_seconds(game_df) ==
  LET maxPeriod == Max({game_df[i].PERIOD : i \in 1..Len(game_df)})
  IN IF maxPeriod > 4 THEN 48 * 60 + (maxPeriod - 4) * 5 * 60 ELSE 48 * 60

\* line 47 (and lines 65-66 for shots)
TimeElapsed(r) ==
  IF r.PERIOD <= 4
  THEN (r.PERIOD - 1) * 12 * 60 + (12 * 60) - r.SECONDS_REMAINING - r.MINUTES_REMAINING * 60
  ELSE 48 * 60 + (r.PERIOD - 5) * 5 * 60 + (5 * 60) - r.SECONDS_REMAINING
         - r.MINUTES_REMAINING * 60

\* rows of grid seconds lo..hi that match no event
GapRows(game_id, lo, hi) ==
  [k \in 1..(hi - lo + 1) |->
     [GAME_ID |-> game_id, TIME_ELAPSED |-> lo + k - 1, ABS_SCORE_DIFF |-> NaN]]

\* score_diff.merge(game_df, how = 'left', on = 'TIME_ELAPSED'): every grid
\* second in order, once per matching event (in the order of game_df), or once
\* with a missing value when no event matches
RECURSIVE MergeFrom(_, _, _, _)
MergeFrom(game_id, lo, hi, game_df) ==
  LET times == {TimeElapsed(game_df[i]) : i \in 1..Len(game_df)} \cap lo..hi
  IN IF times = {} THEN GapRows(game_id, lo, hi)
     ELSE LET t == Min(times)
              hit == SelectSeq(game_df, LAMBDA e : TimeElapsed(e) = t)
          IN GapRows(game_id, lo, t - 1)
               \o [k \in 1..Len(hit) |->
                     [GAME_ID |-> game_id, TIME_ELAPSED |-> t,
                      ABS_SCORE_DIFF |-> hit[k].ABS_SCORE_DIFF]]
               \o MergeFrom(game_id, t + 1, hi, game_df)

\* line 52
ZeroAtStart(frame) ==
  [i \in 1..Len(frame) |->
     IF frame[i].TIME_ELAPSED = 0 THEN [frame[i] EXCEPT !.ABS_SCORE_DIFF = 0]
     ELSE frame[i]]

\* variant: forward fill, then backward fill
FillGapsForwardFirst(frame) == bfill(ffill(frame) \o <<>>) \o <<>>

\* lines 54-55: backward fill, then forward fill (\o <<>> leaves the frame
\* unchanged and only makes its rows explicit between the two passes)
FillGaps(frame) == ffill(bfill(frame) \o <<>>) \o <<>>

process_score_difference(game_df) ==
  LET merged == MergeFrom(game_df[1].GAMEID, 0, max_game_seconds(game_df), game_df)
  IN FillGaps(ZeroAtStart(merged))

-----------------------------------------------------------------------------
(* shot_detail_time_elapsed *)

shot_detail_time_elapsed(shots) ==
  LET regulation == SelectSeq(shots, LAMBDA s : s.PERIOD <= 4)
      overtime == SelectSeq(shots, LAMBDA s : s.PERIOD > 4)
      timed(part) == [i \in 1..Len(part) |->
                        [GAME_ID |-> part[i].GAME_ID, PLAYER_NAME |-> part[i].PLAYER_NAME,
                         TEAM_NAME |-> part[i].TEAM_NAME, PERIOD |-> part[i].PERIOD,
                         MINUTES_REMAINING |-> part[i].MINUTES_REMAINING,
                         SECONDS_REMAINING |-> part[i].SECONDS_REMAINING,
                         SHOT_ZONE_BASIC |-> part[i].SHOT_ZONE_BASIC,
                         SHOT_ATTEMPTED_FLAG |-> part[i].SHOT_ATTEMPTED_FLAG,
                         SHOT_MADE_FLAG |-> part[i].SHOT_MADE_FLAG,
                         TIME_ELAPSED |-> TimeElapsed(part[i])]]
  IN timed(regulation) \o timed(overtime)

-----------------------------------------------------------------------------
(* full_shot_detail_output: the join *)

\* str.contains('3')
Contains3(zone) == \E i \in 1..Len(zone) : zone[i] = "3"

\* the abs_score_diff values a shot row receives from the left join on
\* [GAME_ID, TIME_ELAPSED]: one per matching timeline row, or one missing value
JoinValues(s, timeline) ==
  LET hit == SelectSeq(timeline, LAMBDA r : r.GAME_ID = s.GAME_ID
                                            /\ r.TIME_ELAPSED = s.TIME_ELAPSED)
  IN IF hit = <<>> THEN <<NaN>> ELSE [k \in 1..Len(hit) |-> hit[k].ABS_SCORE_DIFF]

\* lines 98-103
JoinShots(shots, timeline) ==
  Concat([i \in 1..Len(shots) |->
            LET vals == JoinValues(shots[i], timeline)
            IN [k \in 1..Len(vals) |->
                  [GAME_ID |-> shots[i].GAME_ID, PLAYER_NAME |-> shots[i].PLAYER_NAME,
                   TEAM_NAME |-> shots[i].TEAM_NAME, PERIOD |-> shots[i].PERIOD,
                   MINUTES_REMAINING |-> shots[i].MINUTES_REMAINING,
                   SECONDS_REMAINING |-> shots[i].SECONDS_REMAINING,
                   TIME_ELAPSED |-> shots[i].TIME_ELAPSED,
                   ABS_SCORE_DIFF |-> vals[k],
                   SHOT_ATTEMPTED_FLAG |-> shots[i].SHOT_ATTEMPTED_FLAG,
                   SHOT_MADE_FLAG |-> shots[i].SHOT_MADE_FLAG,
                   3PT_ATTEMPTED_FLAG |-> IF Contains3(shots[i].SHOT_ZONE_BASIC) THEN 1 ELSE 0]]])

-----------------------------------------------------------------------------
(* Inputs *)

Clock1200 == <<"1", "2", ":", "0", "0">>
Clock1130 == <<"1", "1", ":", "3", "0">>
Clock0000 == <<"0", ":", "0", "0">>
Clock0230 == <<"2", ":", "3", "0">>
Clock0500 == <<"5", ":", "0", "0">>
ClockBad == <<"1", "2", "0", "0">>

Event(g, p, clock, d) ==
  [GAMEID |-> g, PERIOD |-> p, ENDTIME |-> clock, STARTSCOREDIFFERENTIAL |-> d]

EventPool ==
  { Event(1, 1, Clock1200, 3),
    Event(1, 1, Clock0000, 4),
    Event(1, 1, Clock0000, -7),
    Event(1, 2, Clock1200, 2),
    Event(1, 5, Clock0230, -101),
    Event(2, 2, Clock1130, -9),
    Event(2, 1, ClockBad, 1) }

RestrictedArea == <<"R", "e", "s", "t", "r", "i", "c", "t", "e", "d", " ", "A", "r", "e", "a">>
AboveTheBreak3 == <<"A", "b", "o", "v", "e", " ", "t", "h", "e", " ", "B", "r", "e", "a", "k",
                    " ", "3">>

Shot(g, player, team, p, m, s, zone, made) ==
  [GAME_ID |-> g, PLAYER_NAME |-> player, TEAM_NAME |-> team, PERIOD |-> p,
   MINUTES_REMAINING |-> m, SECONDS_REMAINING |-> s, SHOT_ZONE_BASIC |-> zone,
   SHOT_ATTEMPTED_FLAG |-> 1, SHOT_MADE_FLAG |-> made]

ShotPool ==
  { Shot(1, "A", "X", 1, 11, 30, RestrictedArea, 1),
    Shot(1, "B", "X", 2, 12, 0, AboveTheBreak3, 1),
    Shot(1, "A", "X", 2, 5, 0, AboveTheBreak3, 0),
    Shot(1, "B", "X", 5, 2, 30, RestrictedArea, 0),
    Shot(2, "C", "Y", 4, 0, 0, AboveTheBreak3, 1),
    Shot(3, "C", "Y", 1, 0, 0, RestrictedArea, 1) }

\* play-by-play frames used while the shots vary
FixedPbps ==
  { <<Event(1, 1, Clock0000, 4), Event(1, 2, Clock1200, 2)>>,
    <<Event(1, 1, Clock1130, 4), Event(1, 5, Clock0230, -101)>>,
    <<Event(1, 1, Clock1130, 4), Event(2, 4, Clock0000, 5), Event(2, 5, Clock0500, -6)>> }

\* shot frames used while the play-by-play varies
FixedShots ==
  { <<>>, <<Shot(1, "A", "X", 1, 11, 30, RestrictedArea, 1)>> }

-----------------------------------------------------------------------------
(* The pipeline of full_shot_detail_output *)

Init ==
  /\ \/ pbp \in SeqsUpTo(MaxEvents, EventPool) /\ shot_detail \in FixedShots
     \/ pbp \in FixedPbps /\ shot_detail \in SeqsUpTo(MaxShots, ShotPool)
  /\ pc = "start"
  /\ games = <<>>
  /\ df1 = <<>>
  /\ pbp_list = <<>>
  /\ pbp_df = <<>>
  /\ shot_detail_df = <<>>
  /\ shot_detail_full = <<>>
  /\ error = "none"
  /\ csv = <<>>
  /\ df = <<>>
  /\ agg_df = <<>>

\* line 93, and the evaluation of pbp.GAMEID.unique() at line 78
ShotDetailTimeElapsed ==
  /\ pc = "start"
  /\ shot_detail_df' = shot_detail_time_elapsed(shot_detail)
  /\ games' = Unique([i \in 1..Len(pbp) |-> pbp[i].GAMEID])
  /\ pc' = "loop"
  /\ UNCHANGED <<pbp, shot_detail, df1, pbp_list, pbp_df, shot_detail_full, error>>
  /\ UNCHANGED vizVars

\* one iteration of the loop of pbp_game_processing (lines 78-83); an
\* exception of pbp_processing is not caught and ends the whole call
PbpGameLoop ==
  /\ pc = "loop"
  /\ games # <<>>
  /\ LET game == Head(games)
         pbp_game == SelectSeq(pbp, LAMBDA r : r.GAMEID = game)
     IN IF pbp_processing_raises(pbp_game)
        THEN /\ pc' = "raised"
             /\ error' = "ValueError"
             /\ UNCHANGED <<games, df1, pbp_list>>
        ELSE /\ df1' = pbp_processing(pbp_game)
             /\ pbp_list' = Append(pbp_list, process_score_difference(df1'))
             /\ games' = Tail(games)
             /\ UNCHANGED <<pc, error>>
  /\ UNCHANGED <<pbp, shot_detail, pbp_df, shot_detail_df, shot_detail_full>>
  /\ UNCHANGED vizVars

\* lines 84-85: pd.concat raises on an empty list
PbpConcat ==
  /\ pc = "loop"
  /\ games = <<>>
  /\ IF pbp_list = <<>>
     THEN /\ pc' = "raised"
          /\ error' = "ValueError"
          /\ UNCHANGED pbp_df
     ELSE /\ pbp_df' = Concat(pbp_list)
          /\ pc' = "merge"
          /\ UNCHANGED error
  /\ UNCHANGED <<pbp, shot_detail, games, df1, pbp_list, shot_detail_df, shot_detail_full>>
  /\ UNCHANGED vizVars

\* lines 95-103: forward fill of the timeline, then the left join
MergeShots ==
  /\ pc = "merge"
  /\ pbp_df' = ffill(pbp_df)
  /\ shot_detail_full' = JoinShots(shot_detail_df, pbp_df')
  /\ pc' = "done"
  /\ UNCHANGED <<pbp, shot_detail, games, df1, pbp_list, shot_detail_df, error>>
  /\ UNCHANGED vizVars

Next ==
  \/ ShotDetailTimeElapsed
  \/ PbpGameLoop
  \/ PbpConcat
  \/ MergeShots

Spec == Init /\ [][Next]_vars

-----------------------------------------------------------------------------
(* nba_shot_viz.py.  Columns that clean_pbp_data only drops (GAME_ID,        *)
(* GAME_DATE, PLAYER_ID, SECONDS_REMAINING, TIME_ELAPSED) are left out of    *)
(* the rows.                                                                 *)

\* variant: the period is not capped
CapPeriodNone(p) == p

\* line 25: np.where(PERIOD > 4, 4, PERIOD)
CapPeriod(p) == IF p > 4 THEN 4 ELSE p

clean_pbp_data(frame) ==
  [i \in 1..Len(frame) |->
     LET r == frame[i]
         SHOT_VALUE == IF r.3PT_ATTEMPTED_FLAG = 1 THEN 3 ELSE 2
         PERIOD == CapPeriod(r.PERIOD)
     IN [PLAYER_NAME |-> r.PLAYER_NAME, TEAM_NAME |-> r.TEAM_NAME,
         ABS_SCORE_DIFF |-> r.ABS_SCORE_DIFF,
         FGA |-> r.SHOT_ATTEMPTED_FLAG, FGM |-> r.SHOT_MADE_FLAG,
         3PA |-> r.3PT_ATTEMPTED_FLAG,
         3PM |-> IF SHOT_VALUE = 3 THEN r.SHOT_MADE_FLAG ELSE 0,
         RAW_MINUTES_REMAINING |-> r.MINUTES_REMAINING + (4 - PERIOD) * 12]]

\* the missing category of a bucket column
NoBucket == "NaN"

ScoreBins == <<-1, 5, 10, 15, 20, 100>>
ScoreLabels == <<"0-5", "6-10", "11-15", "16-20", "21+">>
MinuteBins == <<-1, 4, 8, 12, 16, 20, 24, 28, 32, 36, 40, 44, 48>>
MinuteLabels == <<"4-0", "8-5", "12-9", "16-13", "20-17", "24-21", "28-25", "32-29",
                  "36-33", "40-37", "44-41", "48-45">>

\* pd.cut(x, bins, labels): intervals closed on the right; a value outside
\* every interval (a missing value included) gets the missing category
Cut(x, bins, labels) ==
  LET hit == {k \in 1..Len(labels) : bins[k] < x /\ x <= bins[k + 1]}
  IN IF hit = {} THEN NoBucket ELSE labels[CHOOSE k \in hit : TRUE]

create_buckets(frame) ==
  [i \in 1..Len(frame) |->
     LET r == frame[i]
     IN [PLAYER_NAME |-> r.PLAYER_NAME, TEAM_NAME |-> r.TEAM_NAME,
         FGA |-> r.FGA, FGM |-> r.FGM, 3PA |-> r.3PA, 3PM |-> r.3PM,
         ABS_SCORE_DIFF_BUCKETS |-> Cut(r.ABS_SCORE_DIFF, ScoreBins, ScoreLabels),
         RAW_MINUTES_REMAINING_BUCKETS |->
           Cut(r.RAW_MINUTES_REMAINING, MinuteBins, MinuteLabels)]]

\* an absent filter argument
None == "None"

\* lines 47-51: the player filter is tried first
FilterRows(frame, player_name, team_name) ==
  IF player_name # None THEN SelectSeq(frame, LAMBDA r : r.PLAYER_NAME = player_name)
  ELSE IF team_name # None THEN SelectSeq(frame, LAMBDA r : r.TEAM_NAME = team_name)
  ELSE frame

RECURSIVE SumSeq(_)
SumSeq(s) == IF s = <<>> THEN 0 ELSE Head(s) + SumSeq(Tail(s))

\* the result of a float division by zero that is not 0/0
Inf == -2

\* round(x, 3) of the quotient num/den, in thousandths, halves to even
Round3(num, den) ==
  LET q == (1000 * num) \div den
      r == (1000 * num) % den
  IN IF 2 * r > den THEN q + 1
     ELSE IF 2 * r = den THEN q + (q % 2)
     ELSE q

\* variant: a group without attempts reports 0
EFGZero(fgm, tpm, fga) ==
  IF fga = 0 THEN 0 ELSE Round3(2 * fgm + tpm, 2 * fga)

\* line 56: round((FGM + 0.5*3PM) / FGA, 3), in thousandths
EFG(fgm, tpm, fga) ==
  IF fga = 0 THEN (IF 2 * fgm + tpm = 0 THEN NaN ELSE Inf)
  ELSE Round3(2 * fgm + tpm, 2 * fga)

\* lines 54-57: one row per pair of categories (both keys are categorical, so
\* pairs without rows are kept, with sums 0), in category order
aggregate_data(frame, player_name, team_name) ==
  LET rows == FilterRows(frame, player_name, team_name)
      nS == Len(ScoreLabels)
  IN [g \in 1..(Len(MinuteLabels) * nS) |->
        LET tb == MinuteLabels[((g - 1) \div nS) + 1]
            sb == ScoreLabels[((g - 1) % nS) + 1]
            grp == SelectSeq(rows, LAMBDA r : /\ r.RAW_MINUTES_REMAINING_BUCKETS = tb
                                              /\ r.ABS_SCORE_DIFF_BUCKETS = sb)
            fga == SumSeq([k \in 1..Len(grp) |-> grp[k].FGA])
            fgm == SumSeq([k \in 1..Len(grp) |-> grp[k].FGM])
            tpa == SumSeq([k \in 1..Len(grp) |-> grp[k].3PA])
            tpm == SumSeq([k \in 1..Len(grp) |-> grp[k].3PM])
        IN [RAW_MINUTES_REMAINING_BUCKETS |-> tb, ABS_SCORE_DIFF_BUCKETS |-> sb,
            FGA |-> fga, FGM |-> fgm, 3PA |-> tpa, 3PM |-> tpm,
            EFG |-> EFG(fgm, tpm, fga)]]

-----------------------------------------------------------------------------
(* Inputs of the aggregation *)

VizRow(player, team, p, m, d, att, made, three) ==
  [PLAYER_NAME |-> player, TEAM_NAME |-> team, PERIOD |-> p, MINUTES_REMAINING |-> m,
   ABS_SCORE_DIFF |-> d, SHOT_ATTEMPTED_FLAG |-> att, SHOT_MADE_FLAG |-> made,
   3PT_ATTEMPTED_FLAG |-> three]

\* minutes on the clock of a period: 12 in regulation, 5 in overtime
ClockMinutes(p) == IF p <= 4 THEN 0..12 ELSE 0..5

\* every valid clock, one shot each
ClockRows ==
  UNION {{VizRow("A", "X", p, m, 0, 1, 1, 0) : m \in ClockMinutes(p)} : p \in 1..MaxPeriod}

\* every score differential, one shot each
DiffRows == {VizRow("A", "X", 1, 12, d, 1, 0, 1) : d \in (0..MaxScoreDiff) \cup {NaN}}

RowPool ==
  { VizRow("A", "X", 2, 5, 3, 1, 1, 1),
    VizRow("A", "X", 2, 5, 3, 1, 0, 0),
    VizRow("B", "X", 2, 6, 4, 1, 1, 0),
    VizRow("C", "Y", 5, 3, 22, 1, 1, 1),
    VizRow("C", "Y", 1, 12, 0, 0, 0, 0),
    VizRow("B", "X", 4, 0, NaN, 1, 0, 1) }

Players == {None, "A", "C"}
Teams == {None, "X"}

-----------------------------------------------------------------------------
(* efg_scorediff_heatmap up to aggregate_data *)

InitViz ==
  /\ csv \in {<<r>> : r \in ClockRows \cup DiffRows} \cup SeqsUpTo(MaxRows, RowPool)
  /\ df = csv
  /\ pc = "ingested"
  /\ agg_df = <<>>
  /\ pbp = <<>>
  /\ shot_detail = <<>>
  /\ games = <<>>
  /\ df1 = <<>>
  /\ pbp_list = <<>>
  /\ pbp_df = <<>>
  /\ shot_detail_df = <<>>
  /\ shot_detail_full = <<>>
  /\ error = "none"

\* line 160
CleanPbpData ==
  /\ pc = "ingested"
  /\ df' = clean_pbp_data(df)
  /\ pc' = "cleaned"
  /\ UNCHANGED <<csv, agg_df>>
  /\ UNCHANGED pipeVars

\* line 161
CreateBuckets ==
  /\ pc = "cleaned"
  /\ df' = create_buckets(df)
  /\ pc' = "bucketed"
  /\ UNCHANGED <<csv, agg_df>>
  /\ UNCHANGED pipeVars

\* line 162
AggregateData ==
  /\ pc = "bucketed"
  /\ \E player_name \in Players, team_name \in Teams :
       agg_df' = aggregate_data(df, player_name, team_name)
  /\ pc' = "aggregated"
  /\ UNCHANGED <<csv, df>>
  /\ UNCHANGED pipeVars

NextViz ==
  \/ CleanPbpData
  \/ CreateBuckets
  \/ AggregateData

SpecViz == InitViz /\ [][NextViz]_vars

-----------------------------------------------------------------------------
(* Properties of the timeline (pbp_processing, process_score_difference) *)

\* the timeline appended by the last iteration of the loop
LastTimeline == pbp_list[Len(pbp_list)]

\* the raw rows of the game that df1 was computed from
RawRowsOfDf1 == SelectSeq(pbp, LAMBDA r : r.GAMEID = df1[1].GAMEID)

\* C1: for a game with at least one event the timeline has exactly
\* max_game_seconds+1 rows, one for each second 0..max_game_seconds and none
\* repeated, where max_game_seconds is 2880 without overtime and
\* 2880 + (max_period-4)*300 with it.
C1_OneRowPerSecond ==
  pbp_list # <<>> =>
    LET maxPeriod == Max({df1[i].PERIOD : i \in 1..Len(df1)})
        maxSeconds == IF maxPeriod > 4 THEN 2880 + (maxPeriod - 4) * 300 ELSE 2880
    IN /\ Len(LastTimeline) = maxSeconds + 1
       /\ \A i \in 1..Len(LastTimeline) : LastTimeline[i].TIME_ELAPSED = i - 1

\* C3: when the batch loop has ended, by an exception or normally, every game
\* whose clock texts all parse has its timeline in the batch output.
C3_OtherGamesProcessed ==
  pc \in {"raised", "merge", "done"} =>
    \A g \in {pbp[i].GAMEID : i \in 1..Len(pbp)} :
      ~pbp_processing_raises(SelectSeq(pbp, LAMBDA r : r.GAMEID = g))
        => \E i \in 1..Len(pbp_df) : pbp_df[i].GAME_ID = g

\* events of df1, by position, recorded at grid second t
EventsAt(t) == {k \in 1..Len(df1) : TimeElapsed(df1[k]) = t}

\* the value the claim gives to grid second t of a timeline that ends at
\* second last and has recorded events at the seconds of the set seconds
ClaimedValues(t, seconds) ==
  LET later == {u \in seconds : u > t}
      earlier == {u \in seconds : u < t /\ u > 0}
  IN IF t = 0 THEN {0}
     ELSE IF t \in seconds THEN {df1[k].ABS_SCORE_DIFF : k \in EventsAt(t)}
     ELSE IF later # {} THEN {df1[Min(EventsAt(Min(later)))].ABS_SCORE_DIFF}
     ELSE IF earlier # {} THEN {df1[Max(EventsAt(Max(earlier)))].ABS_SCORE_DIFF}
     ELSE {0}

\* C4: in the timeline, second 0 carries 0; a later second with a recorded
\* event carries the value of an event recorded there; a second without event
\* carries the value of the nearest later recorded event; a second after the
\* last recorded event carries the value of the nearest earlier known second;
\* no row has a missing value.
C4_TimelineValues ==
  pbp_list # <<>> =>
    LET timeline == pbp_list[Len(pbp_list)]
        seconds == {TimeElapsed(df1[k]) : k \in 1..Len(df1)}
                     \cap 0..timeline[Len(timeline)].TIME_ELAPSED
    IN \A i \in 1..Len(timeline) :
         /\ timeline[i].ABS_SCORE_DIFF # NaN
         /\ timeline[i].ABS_SCORE_DIFF \in ClaimedValues(timeline[i].TIME_ELAPSED, seconds)

\* a game with an event at second 0 whose value is not 0 and a later event
\* inside the game: the start is forced, the gap before the later event and
\* the tail after it are filled
C4_Witness ==
  /\ pbp_list # <<>>
  /\ \E a, b \in 1..Len(df1) :
       /\ TimeElapsed(df1[a]) = 0
       /\ df1[a].ABS_SCORE_DIFF > 0
       /\ TimeElapsed(df1[b]) > 1
       /\ TimeElapsed(df1[b]) < LastTimeline[Len(LastTimeline)].TIME_ELAPSED
       /\ df1[b].ABS_SCORE_DIFF > 0
  /\ LastTimeline[2].ABS_SCORE_DIFF > 0

\* C5: the rows returned by pbp_processing are ordered by game_id ascending,
\* period ascending, minutes_remaining descending, seconds_remaining ascending.
C5_OutputOrder ==
  \A i \in 1..(Len(df1) - 1) :
    LET a == df1[i]
        b == df1[i + 1]
    IN \/ a.GAMEID < b.GAMEID
       \/ a.GAMEID = b.GAMEID /\ a.PERIOD < b.PERIOD
       \/ a.GAMEID = b.GAMEID /\ a.PERIOD = b.PERIOD
            /\ a.MINUTES_REMAINING > b.MINUTES_REMAINING
       \/ a.GAMEID = b.GAMEID /\ a.PERIOD = b.PERIOD
            /\ a.MINUTES_REMAINING = b.MINUTES_REMAINING
            /\ a.SECONDS_REMAINING < b.SECONDS_REMAINING

\* the (game, period, minute, second) of a raw row
RawKey(r) == <<r.GAMEID, r.PERIOD, ClockMinute(r.ENDTIME), ClockSecond(r.ENDTIME)>>

\* C9: pbp_processing returns exactly one row for each distinct
\* (game_id, period, minutes_remaining, seconds_remaining) of its input, and
\* the row carries the largest |start_score_diff| of the input rows at that key.
C9_Dedup ==
  df1 # <<>> =>
    /\ \A i, j \in 1..Len(df1) : GroupKey(df1[i]) = GroupKey(df1[j]) => i = j
    /\ {GroupKey(df1[i]) : i \in 1..Len(df1)}
         = {RawKey(RawRowsOfDf1[k]) : k \in 1..Len(RawRowsOfDf1)}
    /\ \A i \in 1..Len(df1) :
         LET same == {k \in 1..Len(RawRowsOfDf1) : RawKey(RawRowsOfDf1[k]) = GroupKey(df1[i])}
         IN /\ \A k \in same :
                 Abs(RawRowsOfDf1[k].STARTSCOREDIFFERENTIAL) <= df1[i].ABS_SCORE_DIFF
            /\ \E k \in same :
                 Abs(RawRowsOfDf1[k].STARTSCOREDIFFERENTIAL) = df1[i].ABS_SCORE_DIFF

\* two raw rows of one instant with different values collapsed into one row
C9_Witness ==
  /\ df1 # <<>>
  /\ Len(df1) < Len(RawRowsOfDf1)
  /\ \E j, k \in 1..Len(RawRowsOfDf1) :
       /\ RawKey(RawRowsOfDf1[j]) = RawKey(RawRowsOfDf1[k])
       /\ Abs(RawRowsOfDf1[j].STARTSCOREDIFFERENTIAL)
            # Abs(RawRowsOfDf1[k].STARTSCOREDIFFERENTIAL)

-----------------------------------------------------------------------------
(* Properties of the join (full_shot_detail_output) *)

\* C2: in the joined output a shot without matching timeline row that follows
\* at least one matched shot carries a non-missing abs_score_diff.
C2_JoinMissForwardFilled ==
  pc = "done" =>
    \A i \in 1..Len(shot_detail_full) :
      (\E j \in 1..(i - 1) : shot_detail_full[j].ABS_SCORE_DIFF # NaN)
        => shot_detail_full[i].ABS_SCORE_DIFF # NaN

\* C10: the joined output has exactly one row for each input shot.
C10_OneRowPerShot ==
  pc = "done" => Len(shot_detail_full) = Len(shot_detail)

-----------------------------------------------------------------------------
(* Properties of the aggregation (nba_shot_viz.py) *)

\* C6: in every group, EFG is (FGM + 0.5*3PM)/FGA rounded to 3 decimals when
\* FGA > 0, and is missing when FGA = 0: no error, and not 0.
C6_EFG ==
  pc = "aggregated" =>
    /\ error = "none"
    /\ \A g \in 1..Len(agg_df) :
         LET r == agg_df[g]
             dist == 2 * r.FGA * r.EFG - 1000 * (2 * r.FGM + r.3PM)
         IN /\ r.FGA > 0 => (r.EFG >= 0 /\ 2 * Abs(dist) <= 2 * r.FGA)
            /\ r.FGA = 0 => r.EFG = NaN

\* a group with three attempts, two makes, one of them a three, (2+0.5)/3 =
\* 0.833, next to a group without attempts
C6_Witness ==
  /\ pc = "aggregated"
  /\ \E g \in 1..Len(agg_df) :
       agg_df[g].FGA = 3 /\ agg_df[g].FGM = 2 /\ agg_df[g].3PM = 1 /\ agg_df[g].EFG = 833
  /\ \E g \in 1..Len(agg_df) : agg_df[g].FGA = 0 /\ agg_df[g].EFG = NaN

\* a shot with period >= 1 and a clock inside its period
ValidClock(r) == r.PERIOD >= 1 /\ r.MINUTES_REMAINING \in ClockMinutes(r.PERIOD)

\* the minutes a time label names, <<low, high>>
MinuteLabelRange(label) ==
  CASE label = "4-0" -> <<0, 4>> [] label = "8-5" -> <<5, 8>>
    [] label = "12-9" -> <<9, 12>> [] label = "16-13" -> <<13, 16>>
    [] label = "20-17" -> <<17, 20>> [] label = "24-21" -> <<21, 24>>
    [] label = "28-25" -> <<25, 28>> [] label = "32-29" -> <<29, 32>>
    [] label = "36-33" -> <<33, 36>> [] label = "40-37" -> <<37, 40>>
    [] label = "44-41" -> <<41, 44>> [] label = "48-45" -> <<45, 48>>
    [] OTHER -> <<1, 0>>

\* minutes remaining on the 48-minute scale, as the claim states it
RawMinutes(r) == r.MINUTES_REMAINING + (4 - (IF r.PERIOD < 4 THEN r.PERIOD ELSE 4)) * 12

\* C7: for a shot with a valid clock, raw_minutes_remaining is
\* minutes_remaining + (4 - capped period)*12, lies in 0..48, and the time
\* label it gets is the one whose minute range contains it.
C7_TimeBucket ==
  /\ pc = "cleaned" =>
       \A i \in 1..Len(csv) :
         ValidClock(csv[i]) =>
           /\ df[i].RAW_MINUTES_REMAINING = RawMinutes(csv[i])
           /\ df[i].RAW_MINUTES_REMAINING \in 0..48
  /\ pc = "bucketed" =>
       /\ Len(df) = Len(csv)
       /\ \A i \in 1..Len(csv) :
            ValidClock(csv[i]) =>
              LET range == MinuteLabelRange(df[i].RAW_MINUTES_REMAINING_BUCKETS)
              IN range[1] <= RawMinutes(csv[i]) /\ RawMinutes(csv[i]) <= range[2]

\* the shot of period 2 with 5 minutes left is labelled "32-29", next to an
\* overtime shot
C7_Witness ==
  /\ pc = "bucketed"
  /\ \E i \in 1..Len(csv) :
       /\ csv[i].PERIOD = 2
       /\ csv[i].MINUTES_REMAINING = 5
       /\ df[i].RAW_MINUTES_REMAINING_BUCKETS = "32-29"
  /\ \E i \in 1..Len(csv) :
       csv[i].PERIOD > 4 /\ df[i].RAW_MINUTES_REMAINING_BUCKETS = "4-0"

\* C8: every non-negative abs_score_diff gets exactly one label: 0..5 "0-5",
\* 6..10 "6-10", 11..15 "11-15", 16..20 "16-20", 21 and more "21+".
C8_ScoreBucket ==
  pc = "bucketed" =>
    \A i \in 1..Len(csv) :
      LET d == csv[i].ABS_SCORE_DIFF
      IN d >= 0 =>
           df[i].ABS_SCORE_DIFF_BUCKETS =
             (IF d <= 5 THEN "0-5" ELSE IF d <= 10 THEN "6-10"
              ELSE IF d <= 15 THEN "11-15" ELSE IF d <= 20 THEN "16-20" ELSE "21+")

====
